---- MODULE Spec2Model ----
(***************************************************************************)
(* Model of code_scribe/lib/_llm.py: prompt_translate, the batch           *)
(* translation loop, with the file system it reads and writes, the         *)
(* backend's chat call and the caller re-invoking it once.                 *)
(*                                                                         *)
(* Text is a sequence of atoms.  An atom is one character ("c", " ",       *)
(* "\n", ...) or one whole tag ("<csource>", "</source>", ...).  A tag     *)
(* starts with "<", ends with ">" and holds neither inside, so two tag     *)
(* occurrences never overlap in a Python string and reading a tag as one   *)
(* atom loses no match of the regular expressions of lines 181-186.        *)
(* A file read by readlines() is a sequence of lines, each a text.         *)
(***************************************************************************)
EXTENDS Integers, Sequences, FiniteSets, TLC

VARIABLES
    mapping,        \* argument: five aligned sequences of paths (mapping[0..4])
    seed_prompt,    \* argument: the template file, as toml.load(...)["chat"] reads it
    model,          \* argument: the backend selector ("" and None are both <<>>)
    save_prompts,   \* argument
    checkpoints,    \* the selectors for which os.path.exists holds
    directories,    \* those of them that are directories
    filelist,       \* argument of prompt_inspect: the paths to read, in order
    query_prompt,   \* argument of prompt_inspect: the query text
    fs,             \* the file system: path -> [isfile, data]
    neural_model,   \* local: "None", "TFModel" or "OpenAIModel"
    chat_template,  \* local: the working conversation
    cached_prompt,  \* local: the captured content of the trailing message
    result,         \* local: the text the backend returned
    idx,            \* position of the for loop of line 125 (1-based)
    pc,             \* control position inside prompt_translate
    events,         \* history: what this invocation did, in order
    written,        \* history: units whose extracted output was fully written
    raised,         \* the exception that ended the invocation, if any
    prev            \* history: how the previous invocation ended ("none" at first)

vars == <<mapping, seed_prompt, model, save_prompts, checkpoints, directories,
          filelist, query_prompt, fs, neural_model, chat_template,
          cached_prompt, result, idx, pc, events, written, raised, prev>>

args == <<mapping, seed_prompt, model, save_prompts, checkpoints, directories,
          filelist, query_prompt>>

----------------------------------------------------------------------------
\* Bounds of the model.

MaxUnits == 2
MaxLines == 2
MaxLineLen == 2
MaxResp == 4
MaxFiles == 2

SeqsUpTo(S, n) == UNION {[1..k -> S] : k \in 0..n}

----------------------------------------------------------------------------
\* Python string primitives used by lines 142-143 and 112.

Whitespace == {" ", "\t", "\n"}

RECURSIVE lstrip(_)
lstrip(s) ==
    IF s # <<>> /\ Head(s) \in Whitespace THEN lstrip(Tail(s)) ELSE s

RECURSIVE rstrip(_)
rstrip(s) ==
    IF s # <<>> /\ s[Len(s)] \in Whitespace
    THEN rstrip(SubSeq(s, 1, Len(s) - 1))
    ELSE s

strip(s) == rstrip(lstrip(s))

lower_char(c) ==
    CASE c = "A" -> "a" [] c = "C" -> "c" [] c = "E" -> "e" [] c = "I" -> "i"
      [] c = "L" -> "l" [] c = "M" -> "m" [] c = "N" -> "n" [] c = "O" -> "o"
      [] c = "P" -> "p" [] c = "X" -> "x" [] OTHER -> c

lower(s) == [i \in 1..Len(s) |-> lower_char(s[i])]

startswith(s, p) == Len(s) >= Len(p) /\ SubSeq(s, 1, Len(p)) = p

RECURSIVE join(_)
join(lines) == IF lines = <<>> THEN <<>> ELSE Head(lines) \o join(Tail(lines))

----------------------------------------------------------------------------
\* The comment filter of lines 136-148.

CommentMarkers == {<<"c">>, <<"!", "!">>, <<"!">>}

ComplexToken == <<"c", "o", "m", "p", "l", "e", "x">>

is_comment_NoException(line) ==
    \E m \in CommentMarkers : startswith(lower(strip(line)), m)

is_comment(line) ==
    /\ \E m \in CommentMarkers : startswith(lower(strip(line)), m)
    /\ ~startswith(lower(strip(line)), ComplexToken)

RECURSIVE FilterLoop(_, _)
FilterLoop(lines, acc) ==
    IF lines = <<>> THEN acc
    ELSE FilterLoop(Tail(lines),
                    IF is_comment(Head(lines)) THEN acc
                    ELSE Append(acc, Head(lines)))

source_code(lines) == FilterLoop(lines, <<>>)

\* Lines 150-153.
InjectSource(content, lines) ==
    IF source_code(lines) # <<>>
    THEN content \o <<"\n", "<source>", "\n">> \o join(source_code(lines))
                 \o <<"</source>">>
    ELSE content

\* The draft put through the comment filter, as the source is.
InjectDraft_Filtered(content, lines) == InjectSource(content, lines)

\* Lines 157-165, for a draft file that exists.
InjectDraft(content, lines) ==
    IF lines # <<>>
    THEN content \o <<"\n", "\n", "<draft>", "\n">> \o join(lines)
                 \o <<"</draft>">>
    ELSE content

----------------------------------------------------------------------------
\* re.search(r"<tag>(.*?)</tag>", result, re.DOTALL), lines 181-186.

NoMatch == [found |-> FALSE, group1 |-> <<>>]

\* Without re.DOTALL "." stops at a newline.
RECURSIVE LazyClose_NoDotAll(_, _, _)
LazyClose_NoDotAll(s, j, close) ==
    IF j > Len(s) THEN 0
    ELSE IF s[j] = close THEN j
    ELSE IF s[j] = "\n" THEN 0
    ELSE LazyClose_NoDotAll(s, j + 1, close)

\* The lazy (.*?): the position of the first closing tag at or after j, or 0.
RECURSIVE LazyClose(_, _, _)
LazyClose(s, j, close) ==
    IF j > Len(s) THEN 0
    ELSE IF s[j] = close THEN j
    ELSE LazyClose(s, j + 1, close)

\* The search tries every start position from the left.
RECURSIVE SearchFrom(_, _, _, _)
SearchFrom(s, i, open, close) ==
    IF i > Len(s) THEN NoMatch
    ELSE IF s[i] = open /\ LazyClose(s, i + 1, close) # 0
    THEN [found |-> TRUE,
          group1 |-> SubSeq(s, i + 1, LazyClose(s, i + 1, close) - 1)]
    ELSE SearchFrom(s, i + 1, open, close)

re_search(open, close, s) == SearchFrom(s, 1, open, close)

\* Lines 188-191: what cdest.write receives.
PrimaryText_NoFallback(r) == re_search("<csource>", "</csource>", r).group1

PrimaryText(r) ==
    IF re_search("<csource>", "</csource>", r).found
    THEN re_search("<csource>", "</csource>", r).group1
    ELSE r

----------------------------------------------------------------------------
\* The file system and the conversation.

NoFile == [isfile |-> FALSE, data |-> <<>>]

File(d) == [isfile |-> TRUE, data |-> d]

isfile(p) == fs[p].isfile

exists(m) == m \in checkpoints

NoModel == <<>>

OpenAIName == <<"o", "p", "e", "n", "a", "i">>

NumUnits == Len(mapping[1])

\* The loop variables of line 125 for the unit at idx.
fsource == mapping[1][idx]
csource == mapping[2][idx]
finterface == mapping[3][idx]
cdraft == mapping[4][idx]
promptfile == mapping[5][idx]

\* chat_template[-1]["content"]
LastContent(t) == t[Len(t)].content

SetLastContent(t, c) == [t EXCEPT ![Len(t)].content = c]

\* json.dump(chat_template, pdest, indent=4): the ordered list of the messages'
\* key/value pairs.
json_dump(t) ==
    [i \in 1..Len(t) |-> <<"role", t[i].role, "content", t[i].content>>]

Log(kind) == Append(events, <<kind, idx>>)

\* Exceptions.  The text of a message is kept as one atom after the value it
\* names.
NoError == [type |-> "None", msg |-> <<>>]

\* Lines 116 and 218: ValueError(f"{model} not available").
NotAvailable_Anonymous(m) == [type |-> "ValueError", msg |-> <<" not available">>]

NotAvailable(m) == [type |-> "ValueError", msg |-> m \o <<" not available">>]

\* Line 133: chat_template[-1] on an empty list.
IndexError == [type |-> "IndexError", msg |-> <<"list index out of range">>]

\* A failed open, read or write of path p.
OSError(p) == [type |-> "OSError", msg |-> <<p>>]

\* Whatever neural_model.chat raises.
BackendError == [type |-> "BackendError", msg |-> <<>>]

----------------------------------------------------------------------------
\* Inputs of the batch model.

Template2 ==
    << [role |-> "system", content |-> <<"S">>],
       [role |-> "user", content |-> <<"U">>] >>

Templates == {<<>>, Template2}

SrcCode == << <<"!", " ", "n", "\n">>, <<"x", "\n">> >>

SrcComment == << <<"C", "\n">> >>

DraftText == << <<"d", "\n">> >>

OldText == <<"o">>

RespBoth ==
    <<"p", "<csource>", "I", "\n", "</csource>", "<fsource>", "F", "</fsource>">>

RespNone == <<"r">>

SampleResponses == {RespBoth, RespNone}

Paths(n) == (1..5) \X (1..n)

\* mapping[c][i]: column c is fsource, csource, finterface, cdraft, promptfile.
MappingOf(n) == [c \in 1..5 |-> [i \in 1..n |-> <<c, i>>]]

DiskOf(n, src, out, intf, draft) ==
    [p \in Paths(n) |->
        CASE p[1] = 1 -> src[p[2]]
          [] p[1] = 2 -> out[p[2]]
          [] p[1] = 3 -> intf[p[2]]
          [] p[1] = 4 -> draft[p[2]]
          [] OTHER -> NoFile]

InitLocals ==
    /\ neural_model = "None"
    /\ chat_template = <<>>
    /\ cached_prompt = <<>>
    /\ result = <<>>
    /\ idx = 1
    /\ pc = "start"
    /\ events = <<>>
    /\ raised = NoError
    /\ prev = "none"

Init ==
    /\ \E n \in 1..MaxUnits :
         /\ mapping = MappingOf(n)
         /\ \E src \in [1..n -> {File(SrcCode), File(SrcComment)}],
               out \in [1..n -> {NoFile, File(OldText)}],
               intf \in [1..n -> {NoFile, File(OldText)}],
               draft \in [1..n -> {NoFile, File(DraftText)}] :
                /\ fs = DiskOf(n, src, out, intf, draft)
                /\ written = [i \in 1..n |-> out[i].isfile]
    /\ seed_prompt \in Templates
    /\ model \in {NoModel, OpenAIName}
    /\ checkpoints = {}
    /\ save_prompts \in BOOLEAN
    /\ directories = {}
    /\ filelist = <<>>
    /\ query_prompt = <<>>
    /\ InitLocals

----------------------------------------------------------------------------
\* prompt_translate, step by step.

\* Lines 104-121: the backend is selected and the template is loaded.
Setup ==
    /\ pc = "start"
    /\ IF model # NoModel /\ ~exists(model) /\ lower(model) # OpenAIName
       THEN /\ pc' = "error"
            /\ UNCHANGED <<neural_model, chat_template>>
       ELSE /\ neural_model' =
                  IF model = NoModel THEN "None"
                  ELSE IF exists(model) THEN "TFModel"
                  ELSE "OpenAIModel"
            /\ chat_template' = seed_prompt
            /\ pc' = "loop"
    /\ UNCHANGED <<args, fs, cached_prompt, result, idx, events, written, prev>>
    /\ raised' = IF pc' = "error" THEN NotAvailable(model) ELSE NoError

\* Line 125: zip is exhausted and the function returns.
Finish ==
    /\ pc = "loop"
    /\ idx > NumUnits
    /\ pc' = "done"
    /\ UNCHANGED <<args, fs, neural_model, chat_template, cached_prompt, result,
                   idx, events, written, prev>>
    /\ UNCHANGED raised

\* Line 132: the condition that lets a unit in.
ProcessUnit_AnyOutput == ~isfile(csource) \/ ~isfile(finterface) \/ save_prompts

ProcessUnit_IgnoreSave == ~isfile(csource)

ProcessUnit_Always == TRUE

ProcessUnit_Inverted == isfile(csource) \/ save_prompts

ProcessUnit == ~isfile(csource) \/ save_prompts

\* Lines 198-199: the unit is passed over.
Skip ==
    /\ pc = "loop"
    /\ idx <= NumUnits
    /\ ~ProcessUnit
    /\ idx' = idx + 1
    /\ events' = Log("skip")
    /\ UNCHANGED <<args, fs, neural_model, chat_template, cached_prompt, result,
                   pc, written, prev>>
    /\ UNCHANGED raised

\* Line 133: the trailing message's content is captured; chat_template[-1] raises
\* IndexError on an empty template.
Enter ==
    /\ pc = "loop"
    /\ idx <= NumUnits
    /\ ProcessUnit
    /\ IF chat_template = <<>>
       THEN pc' = "error" /\ UNCHANGED cached_prompt
       ELSE pc' = "source" /\ cached_prompt' = LastContent(chat_template)
    /\ UNCHANGED <<args, fs, neural_model, chat_template, result, idx, events,
                   written, prev>>
    /\ raised' = IF pc' = "error" THEN IndexError ELSE NoError

\* Lines 135-153: the source is read, filtered and injected.
ReadSource ==
    /\ pc = "source"
    /\ isfile(fsource)
    /\ chat_template' =
          SetLastContent(chat_template,
                         InjectSource(LastContent(chat_template), fs[fsource].data))
    /\ events' = Log("read_source")
    /\ pc' = "draft"
    /\ UNCHANGED <<args, fs, neural_model, cached_prompt, result, idx, written,
                   prev>>
    /\ UNCHANGED raised

\* Line 135: open(fsource) raises (no such file, no permission).
ReadSourceFails ==
    /\ pc = "source"
    /\ pc' = "error"
    /\ UNCHANGED <<args, fs, neural_model, chat_template, cached_prompt, result,
                   idx, events, written, prev>>
    /\ raised' = OSError(fsource)

AfterPrompt_NoBackendCheck == IF save_prompts THEN "save" ELSE "chat"

\* Lines 167 and 176: where control goes once the prompt is built.
AfterPrompt ==
    IF save_prompts THEN "save"
    ELSE IF neural_model # "None" THEN "chat"
    ELSE "restore"

\* Lines 155-165: the draft, when there is one, is read whole and injected.
ReadDraft ==
    /\ pc = "draft"
    /\ IF isfile(cdraft)
       THEN /\ chat_template' =
                  SetLastContent(chat_template,
                                 InjectDraft(LastContent(chat_template),
                                             fs[cdraft].data))
            /\ events' = Log("read_draft")
       ELSE UNCHANGED <<chat_template, events>>
    /\ pc' = AfterPrompt
    /\ UNCHANGED <<args, fs, neural_model, cached_prompt, result, idx, written,
                   prev>>
    /\ UNCHANGED raised

\* Line 158: open(cdraft) raises.
ReadDraftFails ==
    /\ pc = "draft"
    /\ isfile(cdraft)
    /\ pc' = "error"
    /\ UNCHANGED <<args, fs, neural_model, chat_template, cached_prompt, result,
                   idx, events, written, prev>>
    /\ raised' = OSError(cdraft)

\* Lines 167-174: the working conversation is dumped.
SavePrompt ==
    /\ pc = "save"
    /\ fs' = [fs EXCEPT ![promptfile] = File(json_dump(chat_template))]
    /\ events' = Log("write_prompt")
    /\ pc' = IF neural_model # "None" THEN "chat" ELSE "restore"
    /\ UNCHANGED <<args, neural_model, chat_template, cached_prompt, result, idx,
                   written, prev>>
    /\ UNCHANGED raised

\* Lines 168-173: open(promptfile, "w") raises and leaves the file alone, or
\* json.dump raises after open has truncated it.
SavePromptFails ==
    /\ pc = "save"
    /\ \/ UNCHANGED fs
       \/ fs' = [fs EXCEPT ![promptfile] = File(<<>>)]
    /\ pc' = "error"
    /\ UNCHANGED <<args, neural_model, chat_template, cached_prompt, result, idx,
                   events, written, prev>>
    /\ raised' = OSError(promptfile)

\* Line 177: the backend answers with one of the texts in R.
ChatIn(R) ==
    /\ pc = "chat"
    /\ \E r \in R : result' = r
    /\ events' = Log("chat")
    /\ pc' = "open"
    /\ UNCHANGED <<args, fs, neural_model, chat_template, cached_prompt, idx,
                   written, prev>>
    /\ UNCHANGED raised

Chat == ChatIn(SampleResponses)

\* Line 177: the call is made and raises (timeout, quota, malformed payload).
ChatFails ==
    /\ pc = "chat"
    /\ events' = Log("chat")
    /\ pc' = "error"
    /\ UNCHANGED <<args, fs, neural_model, chat_template, cached_prompt, result,
                   idx, written, prev>>
    /\ raised' = BackendError

\* Line 179: both outputs are opened for writing, which creates or truncates them.
OpenOutputs ==
    /\ pc = "open"
    /\ fs' = [fs EXCEPT ![csource] = File(<<>>), ![finterface] = File(<<>>)]
    /\ events' = Append(Log("open_csource"), <<"open_finterface", idx>>)
    /\ pc' = "write"
    /\ UNCHANGED <<args, neural_model, chat_template, cached_prompt, result, idx,
                   written, prev>>
    /\ UNCHANGED raised

\* Line 179: open(csource, "w") raises, or it succeeds and open(finterface, "w")
\* raises, which leaves csource created and empty.
OpenOutputsFails ==
    /\ pc = "open"
    /\ \/ /\ UNCHANGED <<fs, events>>
          /\ raised' = OSError(csource)
       \/ /\ fs' = [fs EXCEPT ![csource] = File(<<>>)]
          /\ events' = Log("open_csource")
          /\ raised' = OSError(finterface)
    /\ pc' = "error"
    /\ UNCHANGED <<args, neural_model, chat_template, cached_prompt, result, idx,
                   written, prev>>

\* Lines 193-194: what the secondary file holds once the block is left.
SecondaryData(r) ==
    IF re_search("<fsource>", "</fsource>", r).found
    THEN re_search("<fsource>", "</fsource>", r).group1
    ELSE fs[finterface].data

\* Lines 181-194: the two spans are searched and the outputs written and closed.
WriteOutputs ==
    /\ pc = "write"
    /\ fs' = [fs EXCEPT ![csource] = File(PrimaryText(result)),
                        ![finterface] = File(SecondaryData(result))]
    /\ events' =
          IF re_search("<fsource>", "</fsource>", result).found
          THEN Append(Log("write_csource"), <<"write_finterface", idx>>)
          ELSE Log("write_csource")
    /\ written' = [written EXCEPT ![idx] = TRUE]
    /\ pc' = "restore"
    /\ UNCHANGED <<args, neural_model, chat_template, cached_prompt, result, idx,
                   prev>>
    /\ UNCHANGED raised

\* Lines 189-191: cdest.write raises; both files stay as open left them.
WriteOutputsFails ==
    /\ pc = "write"
    /\ pc' = "error"
    /\ UNCHANGED <<args, fs, neural_model, chat_template, cached_prompt, result,
                   idx, events, written, prev>>
    /\ raised' = OSError(csource)

\* Line 196: what the trailing message is set back to.
RestoredContent_Forgotten == LastContent(chat_template)

RestoredContent == cached_prompt

Restore_NoAdvance ==
    /\ pc = "restore"
    /\ chat_template' = SetLastContent(chat_template, RestoredContent)
    /\ idx' = idx
    /\ pc' = "loop"
    /\ UNCHANGED <<args, fs, neural_model, cached_prompt, result, events, written,
                   prev, raised>>

\* Line 196, then the next iteration of line 125.
Restore ==
    /\ pc = "restore"
    /\ chat_template' = SetLastContent(chat_template, RestoredContent)
    /\ idx' = idx + 1
    /\ pc' = "loop"
    /\ UNCHANGED <<args, fs, neural_model, cached_prompt, result, events, written,
                   prev>>
    /\ UNCHANGED raised

\* Line 99: the caller invokes prompt_translate again with the same arguments on
\* the file system the previous invocation left.
Reinvoke ==
    /\ pc \in {"done", "error"}
    /\ prev = "none"
    /\ prev' = pc
    /\ neural_model' = "None"
    /\ chat_template' = <<>>
    /\ cached_prompt' = <<>>
    /\ result' = <<>>
    /\ idx' = 1
    /\ pc' = "start"
    /\ events' = <<>>
    /\ UNCHANGED <<args, fs, written>>
    /\ raised' = NoError

Failure ==
    \/ ReadSourceFails
    \/ ReadDraftFails
    \/ SavePromptFails
    \/ ChatFails
    \/ OpenOutputsFails
    \/ WriteOutputsFails

Step ==
    \/ Setup
    \/ Finish
    \/ Skip
    \/ Enter
    \/ ReadSource
    \/ ReadDraft
    \/ SavePrompt
    \/ OpenOutputs
    \/ WriteOutputs
    \/ Restore

Next == Step \/ Chat \/ Failure \/ Reinvoke

Spec == Init /\ [][Next]_vars

----------------------------------------------------------------------------
\* The comment filter on its own: one unit, no backend, no prompt saving, and a
\* source file drawn from short lines over FilterAlphabet and from files of
\* whole sample lines.

LineNote == <<"C", " ", "n", "o", "t", "e", "\n">>

LineComplex == <<"c", "o", "m", "p", "l", "e", "x", " ", "z", "\n">>

LineBang == <<"!", " ", "m", "o", "r", "e", "\n">>

LineCode == <<"c", "o", "d", "e", "(", "1", ")", "\n">>

LineIndentedComplex == <<" ", " ", "C", "o", "m", "p", "l", "e", "x", "*", "8", "\n">>

LineUpperComplex == <<"C", "O", "M", "P", "L", "E", "X">>

LineComple == <<"c", "o", "m", "p", "l", "e", "\n">>

LineBangBang == <<"!", "!", "x", "\n">>

SampleLines ==
    {LineNote, LineComplex, LineBang, LineCode, LineIndentedComplex,
     LineUpperComplex, LineComple, LineBangBang}

FilterAlphabet == {" ", "c", "C", "!", "x", "\n"}

\* What readlines() can return: no line is empty, a newline ends a line, and
\* only the last line of a file may lack one.
IsLine(l) == l # <<>> /\ \A k \in 1..(Len(l) - 1) : l[k] # "\n"

IsFileOfLines(f) ==
    /\ \A k \in 1..Len(f) : IsLine(f[k])
    /\ \A k \in 1..(Len(f) - 1) : f[k][Len(f[k])] = "\n"

FilterInputs ==
    {f \in {<<l>> : l \in SeqsUpTo(FilterAlphabet, MaxLineLen)}
              \cup SeqsUpTo(SampleLines, MaxLines) : IsFileOfLines(f)}

InitFilter ==
    /\ mapping = MappingOf(1)
    /\ \E lines \in FilterInputs :
          fs = DiskOf(1, <<File(lines)>>, <<NoFile>>, <<NoFile>>, <<NoFile>>)
    /\ written = <<FALSE>>
    /\ seed_prompt = Template2
    /\ model = NoModel
    /\ checkpoints = {}
    /\ save_prompts = FALSE
    /\ directories = {}
    /\ filelist = <<>>
    /\ query_prompt = <<>>
    /\ InitLocals

NextFilter == Setup \/ Enter \/ ReadSource \/ ReadDraft \/ Restore \/ Finish

SpecFilter == InitFilter /\ [][NextFilter]_vars

----------------------------------------------------------------------------
\* The extraction on its own: one unit with a backend that may answer with any
\* text of at most MaxResp atoms over RespAlphabet.

RespAlphabet == {"<csource>", "</csource>", "<fsource>", "</fsource>", "x", "\n"}

AllResponses == SeqsUpTo(RespAlphabet, MaxResp)

ChatAny == ChatIn(AllResponses)

InitExtract ==
    /\ mapping = MappingOf(1)
    /\ \E intf \in {NoFile, File(OldText)} :
          fs = DiskOf(1, <<File(SrcCode)>>, <<NoFile>>, <<intf>>, <<NoFile>>)
    /\ written = <<FALSE>>
    /\ seed_prompt = Template2
    /\ model = OpenAIName
    /\ checkpoints = {}
    /\ save_prompts = FALSE
    /\ directories = {}
    /\ filelist = <<>>
    /\ query_prompt = <<>>
    /\ InitLocals

NextExtract ==
    \/ Setup
    \/ Enter
    \/ ReadSource
    \/ ReadDraft
    \/ ChatAny
    \/ OpenOutputs
    \/ WriteOutputs
    \/ Restore
    \/ Finish

SpecExtract == InitExtract /\ [][NextExtract]_vars

----------------------------------------------------------------------------
\* The draft on its own: one unit without backend or prompt saving, whose draft
\* is absent, empty, or any file of at most MaxLines sample lines.

DraftInputs ==
    {NoFile} \cup {File(f) : f \in {g \in SeqsUpTo(SampleLines, MaxLines) :
                                        IsFileOfLines(g)}}

InitDraft ==
    /\ mapping = MappingOf(1)
    /\ \E src \in {File(SrcCode), File(SrcComment)}, draft \in DraftInputs :
          fs = DiskOf(1, <<src>>, <<NoFile>>, <<NoFile>>, <<draft>>)
    /\ written = <<FALSE>>
    /\ seed_prompt = Template2
    /\ model = NoModel
    /\ checkpoints = {}
    /\ save_prompts = FALSE
    /\ directories = {}
    /\ filelist = <<>>
    /\ query_prompt = <<>>
    /\ InitLocals

NextDraft ==
    \/ Setup
    \/ Enter
    \/ ReadSource
    \/ ReadDraft
    \/ ReadDraftFails
    \/ Restore
    \/ Finish

SpecDraft == InitDraft /\ [][NextDraft]_vars

----------------------------------------------------------------------------
\* prompt_inspect, step by step.  Its paths are file names; the fixed preamble
\* of lines 226-238 is kept as one atom, and a file's tag <PATH> as the three
\* atoms "<", PATH, ">".

Preamble == <<"I will give you source code ... using elements <query> ... </query>.\n\n">>

ScribeJson == "scribe.json"

Stdout == "stdout"

\* Lines 206-239: the backend is selected and the conversation is started.
ISetup ==
    /\ pc = "i_start"
    /\ IF model # NoModel /\ ~exists(model) /\ lower(model) # OpenAIName
       THEN /\ pc' = "error"
            /\ raised' = NotAvailable(model)
            /\ UNCHANGED <<neural_model, chat_template>>
       ELSE /\ neural_model' =
                  IF model = NoModel THEN "None"
                  ELSE IF exists(model) THEN "TFModel"
                  ELSE "OpenAIModel"
            /\ chat_template' = <<[role |-> "user", content |-> Preamble]>>
            /\ pc' = "i_files"
            /\ UNCHANGED raised
    /\ UNCHANGED <<args, fs, cached_prompt, result, idx, events, written, prev>>

AddFileBlock_Prepended(content, path, lines) ==
    IF lines # <<>>
    THEN <<"\n", "<", path, ">", "\n">> \o join(lines) \o <<"</", path, ">", "\n">>
            \o content
    ELSE content

\* Lines 248-251: the block of one file, added when the file holds a line.
AddFileBlock(content, path, lines) ==
    IF lines # <<>>
    THEN content \o <<"\n", "<", path, ">", "\n">> \o join(lines)
                 \o <<"</", path, ">", "\n">>
    ELSE content

\* Lines 241-251: the next file of the list is read and its block added.
IReadFile ==
    /\ pc = "i_files"
    /\ idx <= Len(filelist)
    /\ isfile(filelist[idx])
    /\ chat_template' =
          SetLastContent(chat_template,
                         AddFileBlock(LastContent(chat_template), filelist[idx],
                                      fs[filelist[idx]].data))
    /\ events' = Log("read_file")
    /\ idx' = idx + 1
    /\ UNCHANGED <<args, fs, neural_model, cached_prompt, result, pc, written,
                   raised, prev>>

\* Line 242: open(fsource) raises.
IReadFileFails ==
    /\ pc = "i_files"
    /\ idx <= Len(filelist)
    /\ pc' = "error"
    /\ raised' = OSError(filelist[idx])
    /\ UNCHANGED <<args, fs, neural_model, chat_template, cached_prompt, result,
                   idx, events, written, prev>>

\* Lines 255 and 259: where control goes once the prompt is built.
IAfterPrompt ==
    IF save_prompts THEN "i_save"
    ELSE IF neural_model # "None" THEN "i_chat"
    ELSE "done"

\* Line 253: the list is exhausted and the query block is added.
IQuery ==
    /\ pc = "i_files"
    /\ idx > Len(filelist)
    /\ chat_template' =
          SetLastContent(chat_template,
                         LastContent(chat_template) \o <<"\n", "<query>", "\n">>
                            \o query_prompt \o <<"\n", "</query>", "\n">>)
    /\ pc' = IAfterPrompt
    /\ UNCHANGED <<args, fs, neural_model, cached_prompt, result, idx, events,
                   written, raised, prev>>

\* Lines 255-257: the conversation is dumped to scribe.json.
ISave ==
    /\ pc = "i_save"
    /\ fs' = [fs EXCEPT ![ScribeJson] = File(json_dump(chat_template))]
    /\ events' = Append(events, <<"write_prompt", 0>>)
    /\ pc' = IF neural_model # "None" THEN "i_chat" ELSE "done"
    /\ UNCHANGED <<args, neural_model, chat_template, cached_prompt, result, idx,
                   written, raised, prev>>

\* Line 256: open("scribe.json", "w") raises.
ISaveFails ==
    /\ pc = "i_save"
    /\ pc' = "error"
    /\ raised' = OSError(ScribeJson)
    /\ UNCHANGED <<args, fs, neural_model, chat_template, cached_prompt, result,
                   idx, events, written, prev>>

\* Lines 260-261: the backend answers with one of the texts in R and the answer
\* is printed as it is.
IChatIn(R) ==
    /\ pc = "i_chat"
    /\ \E r \in R :
          /\ result' = r
          /\ fs' = [fs EXCEPT ![Stdout] = File(Append(fs[Stdout].data, r))]
    /\ events' = Append(events, <<"chat", 0>>)
    /\ pc' = "done"
    /\ UNCHANGED <<args, neural_model, chat_template, cached_prompt, idx, written,
                   raised, prev>>

IChat == IChatIn(SampleResponses)

\* Line 260: the call is made and raises.
IChatFails ==
    /\ pc = "i_chat"
    /\ events' = Append(events, <<"chat", 0>>)
    /\ pc' = "error"
    /\ raised' = BackendError
    /\ UNCHANGED <<args, fs, neural_model, chat_template, cached_prompt, result,
                   idx, written, prev>>

FileNames == {"a.f", "b.f"}

InspectFiles == {File(<<>>), File(<<LineCode>>), File(<<LineNote, LineCode>>)}

QueryText == <<"q", "?">>

\* The files of prompt_inspect: the inputs, scribe.json and the output stream.
InspectDisk(content) ==
    [p \in FileNames \cup {ScribeJson, Stdout} |->
        IF p \in FileNames THEN content[p]
        ELSE IF p = Stdout THEN File(<<>>)
        ELSE NoFile]

InitInspect ==
    /\ filelist \in SeqsUpTo(FileNames, MaxFiles)
    /\ query_prompt = QueryText
    /\ \E content \in [FileNames -> InspectFiles] : fs = InspectDisk(content)
    /\ model \in {NoModel, OpenAIName}
    /\ save_prompts \in BOOLEAN
    /\ checkpoints = {}
    /\ directories = {}
    /\ mapping = MappingOf(0)
    /\ seed_prompt = <<>>
    /\ written = <<>>
    /\ neural_model = "None"
    /\ chat_template = <<>>
    /\ cached_prompt = <<>>
    /\ result = <<>>
    /\ idx = 1
    /\ pc = "i_start"
    /\ events = <<>>
    /\ raised = NoError
    /\ prev = "none"

NextInspect ==
    \/ ISetup
    \/ IReadFile
    \/ IReadFileFails
    \/ IQuery
    \/ ISave
    \/ ISaveFails
    \/ IChat
    \/ IChatFails

SpecInspect == InitInspect /\ [][NextInspect]_vars

----------------------------------------------------------------------------
\* The selection of the backend on its own: either function is invoked on one
\* small input, with every kind of selector and every state of the paths the
\* selector may name.

MixedOpenAI == <<"O", "p", "e", "n", "A", "I">>

CheckpointPath == <<"c", "k">>

UnknownName == <<"n", "o">>

Selectors == {NoModel, OpenAIName, MixedOpenAI, CheckpointPath, UnknownName}

InitSelect ==
    /\ model \in Selectors
    /\ checkpoints \in SUBSET (Selectors \ {NoModel})
    /\ directories \in SUBSET checkpoints
    /\ save_prompts = FALSE
    /\ seed_prompt = Template2
    /\ mapping = MappingOf(1)
    /\ written = [i \in 1..1 |-> FALSE]
    /\ query_prompt = QueryText
    /\ \/ /\ pc = "start"
          /\ filelist = <<>>
          /\ fs = DiskOf(1, [i \in 1..1 |-> File(SrcCode)], [i \in 1..1 |-> NoFile],
                         [i \in 1..1 |-> NoFile], [i \in 1..1 |-> NoFile])
       \/ /\ pc = "i_start"
          /\ filelist = <<"a.f">>
          /\ fs = InspectDisk([p \in FileNames |-> File(<<LineCode>>)])
    /\ neural_model = "None"
    /\ chat_template = <<>>
    /\ cached_prompt = <<>>
    /\ result = <<>>
    /\ idx = 1
    /\ events = <<>>
    /\ raised = NoError
    /\ prev = "none"

NextSelect ==
    \/ Setup
    \/ Enter
    \/ ReadSource
    \/ ReadDraft
    \/ Chat
    \/ OpenOutputs
    \/ WriteOutputs
    \/ Restore
    \/ Finish
    \/ ISetup
    \/ IReadFile
    \/ IQuery
    \/ IChat

SpecSelect == InitSelect /\ [][NextSelect]_vars

----------------------------------------------------------------------------
\* Vocabulary of the properties.

Units == 1..NumUnits

Happened(kind, i) == \E k \in 1..Len(events) : events[k] = <<kind, i>>

Count(kind, i) == Cardinality({k \in 1..Len(events) : events[k] = <<kind, i>>})

Backend == model # NoModel

\* A step that changes no file and makes no chat call.
WritesNothing ==
    /\ fs' = fs
    /\ \A i \in Units : events' # Append(events, <<"chat", i>>)

\* A step that adds nothing to the history but the note of a skip.
OnlySkips ==
    \/ events' = events
    \/ \E i \in Units : events' = Append(events, <<"skip", i>>)

----------------------------------------------------------------------------
\* C1 (as amended).  After an invocation with a backend and without save_prompts
\* has completed without error, every step of a second invocation with the same
\* arguments leaves every file as it is, makes no chat call, reads nothing and
\* raises nothing, and once it has completed every unit has taken the skip
\* branch.
C1_RerunWritesNothing ==
    [][(prev = "done" /\ Backend /\ ~save_prompts)
          => /\ WritesNothing
             /\ OnlySkips
             /\ pc' # "error"
             /\ (pc' = "done" => \A i \in Units : Happened("skip", i)')]_vars

\* C1 as stated: the same for every value of save_prompts.
C1_RerunWritesNothing_AsStated ==
    [][(prev = "done" /\ Backend) => WritesNothing]_vars

\* A second invocation has completed after a first one that generated unit 1.
C1_Witness ==
    /\ prev = "done"
    /\ pc = "done"
    /\ Backend
    /\ ~save_prompts
    /\ fs[<<2, 1>>] = File(PrimaryText(RespBoth))
    /\ \A i \in Units : Happened("skip", i)

----------------------------------------------------------------------------
\* C2.  When an invocation with a backend and without save_prompts has aborted
\* and the next invocation has completed, every unit's primary artifact is a
\* file that holds the output extracted from a backend response.  (A primary
\* artifact present before the first invocation counts as such an output.)
C2_ResumedRunGeneratesEveryUnit ==
    (prev = "error" /\ pc = "done" /\ Backend /\ ~save_prompts)
        => \A i \in Units : isfile(<<2, i>>) /\ written[i]

----------------------------------------------------------------------------
\* C3.  While a unit whose response holds no <fsource> span is being written,
\* no step changes the unit's secondary artifact: it is not created and its
\* content stays.
C3_SecondaryUntouchedWithoutSpan ==
    [][(pc \in {"open", "write"}
          /\ ~re_search("<fsource>", "</fsource>", result).found)
          => fs'[finterface] = fs[finterface]]_vars

----------------------------------------------------------------------------
\* C4.  Whenever the loop reaches a unit (or its end), the working conversation
\* is the template as loaded: the trailing message holds the seed content and
\* the earlier messages are unchanged.
C4_TemplateRestoredAtEachUnit ==
    pc = "loop" => chat_template = seed_prompt

\* The second unit is reached after the first had source and draft injected.
C4_Witness ==
    /\ pc = "loop"
    /\ idx = 2
    /\ NumUnits = 2
    /\ Happened("read_source", 1)
    /\ Happened("read_draft", 1)
    /\ fs[<<1, 1>>] = File(SrcCode)

----------------------------------------------------------------------------
\* C5.  When an error leaves a unit after its source was read and injected, the
\* trailing message holds the captured seed content again.
C5_TemplateRestoredOnError ==
    (pc = "error" /\ idx \in Units /\ Happened("read_source", idx))
        => LastContent(chat_template) = cached_prompt

----------------------------------------------------------------------------
\* The <csource> span, stated on positions: the opening tags that some closing
\* tag follows.
SpanStarts(r) ==
    {i \in 1..Len(r) :
        r[i] = "<csource>" /\ \E j \in (i + 1)..Len(r) : r[j] = "</csource>"}

Least(S) == CHOOSE x \in S : \A y \in S : x <= y

FirstSpanInterior(r) ==
    LET i == Least(SpanStarts(r))
        j == Least({k \in (i + 1)..Len(r) : r[k] = "</csource>"})
    IN  SubSeq(r, i + 1, j - 1)

\* C6.  The primary artifact holds the interior of the leftmost <csource> ...
\* </csource> span, ended at the first </csource> after its start, newlines
\* included, and the whole response when there is no such span; the write is
\* always possible.
C6_PrimaryIsFirstSpanOrWhole ==
    /\ pc = "write" => ENABLED WriteOutputs
    /\ (pc = "restore" /\ Happened("write_csource", idx))
          => fs[csource].data =
                IF SpanStarts(result) # {} THEN FirstSpanInterior(result)
                ELSE result

\* A response with one opening and two closing tags around a newline has been
\* written: the span ends at the first closing tag and holds the newline.
C6_Witness ==
    /\ pc = "restore"
    /\ result = <<"<csource>", "\n", "</csource>", "</csource>">>
    /\ fs[csource].data = <<"\n">>

----------------------------------------------------------------------------
\* C7 (as amended).  For a non-empty response that holds no <csource> span, or
\* whose first span has a non-empty interior, the primary artifact is written
\* non-empty.
C7_PrimaryNonEmpty ==
    (/\ pc = "restore"
     /\ Happened("write_csource", idx)
     /\ result # <<>>
     /\ (SpanStarts(result) # {} => FirstSpanInterior(result) # <<>>))
        => fs[csource].data # <<>>

\* C7 as stated: for every non-empty response.
C7_PrimaryNonEmpty_AsStated ==
    (pc = "restore" /\ Happened("write_csource", idx) /\ result # <<>>)
        => fs[csource].data # <<>>

\* A response without a span has been written whole.
C7_Witness ==
    /\ pc = "restore"
    /\ result = <<"x", "</csource>">>
    /\ fs[csource].data = result

----------------------------------------------------------------------------
\* C8.  A unit reached with its primary output present and save_prompts false is
\* passed over in one step that changes no file, reads nothing, calls nothing
\* and leaves the conversation alone.
C8_EntryGuardSkips ==
    [][(pc = "loop" /\ idx \in Units /\ isfile(csource) /\ ~save_prompts)
          => /\ fs' = fs
             /\ chat_template' = chat_template
             /\ cached_prompt' = cached_prompt
             /\ result' = result
             /\ events' = Append(events, <<"skip", idx>>)
             /\ pc' = "loop"
             /\ idx' = idx + 1]_vars

\* The first unit, present from the start, was passed over with a backend set.
C8_Witness ==
    /\ pc = "loop"
    /\ idx = 2
    /\ prev = "none"
    /\ Backend
    /\ events = << <<"skip", 1>> >>
    /\ fs[<<2, 1>>] = File(OldText)

----------------------------------------------------------------------------
\* The comment rule, stated on the characters of a line: the position of its
\* first non-blank character (0 when it has none), and "complex" spelt in any
\* letter case from a position on.
FirstInk(line) ==
    IF \A k \in 1..Len(line) : line[k] \in Whitespace THEN 0
    ELSE Least({k \in 1..Len(line) : line[k] \notin Whitespace})

UpperOf ==
    [c \in {"c", "o", "m", "p", "l", "e", "x"} |->
        CASE c = "c" -> "C" [] c = "o" -> "O" [] c = "m" -> "M" [] c = "p" -> "P"
          [] c = "l" -> "L" [] c = "e" -> "E" [] c = "x" -> "X"]

SpellsComplexAt(line, k) ==
    /\ k + 6 <= Len(line)
    /\ \A j \in 1..7 :
          line[k + j - 1] \in {ComplexToken[j], UpperOf[ComplexToken[j]]}

Dropped(line) ==
    /\ FirstInk(line) # 0
    /\ line[FirstInk(line)] \in {"c", "C", "!"}
    /\ ~SpellsComplexAt(line, FirstInk(line))

Kept(line) == ~Dropped(line)

\* C9.  A source line is dropped iff its first non-blank character is "c", "C"
\* or "!" and the text from there on does not begin with "complex" in any
\* letter case; the kept lines are injected unmodified, in order, as one
\* <source> block, and nothing is injected when no line is kept.
C9_CommentFilter ==
    (pc = "draft" /\ Happened("read_source", idx))
        => LET lines == fs[fsource].data
               kept == SelectSeq(lines, Kept)
               seed == LastContent(seed_prompt)
           IN  LastContent(chat_template) =
                  IF kept = <<>> THEN seed
                  ELSE seed \o <<"\n", "<source>", "\n">> \o join(kept)
                            \o <<"</source>">>

\* The lines "C note", "complex z" were read: the second alone is injected.
C9_Witness ==
    /\ pc = "draft"
    /\ fs[fsource].data = <<LineNote, LineComplex>>
    /\ LastContent(chat_template) =
          <<"U", "\n", "<source>", "\n">> \o LineComplex \o <<"</source>">>

----------------------------------------------------------------------------
\* The dump a unit is due: the template as loaded, its last content extended by
\* the unit's own blocks.
ExpectedPrompt(i) ==
    LET seed == LastContent(seed_prompt)
        withSource == InjectSource(seed, fs[<<1, i>>].data)
        withDraft ==
            IF isfile(<<4, i>>) THEN InjectDraft(withSource, fs[<<4, i>>].data)
            ELSE withSource
    IN  json_dump(SetLastContent(seed_prompt, withDraft))

DumpBeforeChat(i) ==
    \A k \in 1..Len(events) :
        events[k] = <<"chat", i>>
            => \E j \in 1..(k - 1) : events[j] = <<"write_prompt", i>>

\* C10.  With save_prompts, a completed invocation has written every unit's
\* prompt dump exactly once, holding the template's messages in order with the
\* last one extended by that unit's own source and draft blocks only; a chat
\* call for a unit comes after the unit's dump, and without a backend there is
\* no chat call at all.
C10_PromptSavedForEveryUnit ==
    save_prompts =>
        /\ \A i \in Units : DumpBeforeChat(i)
        /\ ~Backend => \A k \in 1..Len(events) : events[k][1] # "chat"
        /\ pc = "done" =>
              \A i \in Units :
                  /\ Count("write_prompt", i) = 1
                  /\ fs[<<5, i>>] = File(ExpectedPrompt(i))

\* Without a backend, two units whose primary outputs were present have both
\* been dumped.
C10_Witness ==
    /\ save_prompts
    /\ ~Backend
    /\ pc = "done"
    /\ NumUnits = 2
    /\ \A i \in Units : fs[<<2, i>>] = File(OldText) /\ Count("write_prompt", i) = 1
    /\ fs[<<1, 1>>] = File(SrcCode)
    /\ fs[<<4, 1>>] = File(DraftText)

----------------------------------------------------------------------------
\* C11.  Without a backend and without save_prompts no step of the invocation
\* changes a file or makes a chat call, control never reaches the dump, the
\* chat call or the output files, and whenever a unit has been passed or
\* finished the conversation is the template as loaded.
C11_DryRunIsNoOp ==
    [][(~Backend /\ ~save_prompts)
          => /\ WritesNothing
             /\ pc' \notin {"save", "chat", "open", "write"}
             /\ (pc' \in {"loop", "done"} /\ pc # "start"
                    => chat_template' = seed_prompt)]_vars

\* A dry run over two units has completed; the first, whose primary output is
\* still absent, had its source and draft read.
C11_Witness ==
    /\ ~Backend
    /\ ~save_prompts
    /\ pc = "done"
    /\ prev = "none"
    /\ NumUnits = 2
    /\ Happened("read_source", 1)
    /\ Happened("read_draft", 1)
    /\ fs[<<1, 1>>] = File(SrcCode)
    /\ ~isfile(<<2, 1>>)

----------------------------------------------------------------------------
\* The working prompt of the unit holds a <draft> tag.
HasDraftBlock ==
    \E k \in 1..Len(LastContent(chat_template)) :
        LastContent(chat_template)[k] = "<draft>"

\* The prompt as the source step left it.
PromptAfterSource == InjectSource(LastContent(seed_prompt), fs[fsource].data)

DraftBlock == <<"\n", "\n", "<draft>", "\n">> \o join(fs[cdraft].data) \o <<"</draft>">>

\* C12 (as amended).  Once the draft step of a unit is over, the working prompt
\* holds a <draft> block iff a non-empty file exists at the draft path; then the
\* block holds the file's lines, all of them and unchanged, right after what the
\* source step left, and otherwise the prompt is what the source step left.  An
\* absent draft raises nothing.
C12_DraftInjectedIffNonEmpty ==
    /\ (pc = "draft" /\ ~isfile(cdraft))
          => ENABLED ReadDraft /\ ~ENABLED ReadDraftFails
    /\ pc = "restore"
          => /\ HasDraftBlock <=> (isfile(cdraft) /\ fs[cdraft].data # <<>>)
             /\ LastContent(chat_template) =
                   IF isfile(cdraft) /\ fs[cdraft].data # <<>>
                   THEN PromptAfterSource \o DraftBlock
                   ELSE PromptAfterSource

\* C12 as stated: the block is there iff a file exists at the draft path.
C12_DraftInjectedIffExists ==
    pc = "restore" => (HasDraftBlock <=> isfile(cdraft))

\* A draft of a comment line and a code line was injected whole after the
\* source block.
C12_Witness ==
    /\ pc = "restore"
    /\ fs[fsource] = File(SrcCode)
    /\ fs[cdraft] = File(<<LineNote, LineCode>>)
    /\ LastContent(chat_template) =
          <<"U", "\n", "<source>", "\n", "x", "\n", "</source>",
            "\n", "\n", "<draft>", "\n">> \o LineNote \o LineCode \o <<"</draft>">>

----------------------------------------------------------------------------
UpperLetter ==
    [c \in {"o", "p", "e", "n", "a", "i"} |->
        CASE c = "o" -> "O" [] c = "p" -> "P" [] c = "e" -> "E"
          [] c = "n" -> "N" [] c = "a" -> "A" [] c = "i" -> "I"]

\* The selector spells the reserved provider name, in any case.
IsProviderName(m) ==
    /\ Len(m) = Len(OpenAIName)
    /\ \A j \in 1..Len(m) : m[j] \in {OpenAIName[j], UpperLetter[OpenAIName[j]]}

\* The selector is given, names no existing path and is not the provider name.
Unresolvable ==
    /\ model # NoModel
    /\ model \notin checkpoints
    /\ ~IsProviderName(model)

\* C13.  With an unresolvable selector, the only step either function takes is
\* to raise a value error whose message names the selector: the template is
\* not loaded, nothing is read, written or sent, and nothing follows.
C13_UnresolvableSelectorRaises ==
    [][Unresolvable
          => /\ pc \in {"start", "i_start"}
             /\ pc' = "error"
             /\ raised'.type = "ValueError"
             /\ Len(raised'.msg) > Len(model)
             /\ SubSeq(raised'.msg, 1, Len(model)) = model
             /\ chat_template' = <<>>
             /\ neural_model' = "None"
             /\ fs' = fs
             /\ events' = <<>>]_vars

\* prompt_inspect was given a name that is no path and not the provider's, and
\* raised.
C13_Witness ==
    /\ model = UnknownName
    /\ checkpoints = {CheckpointPath}
    /\ filelist # <<>>
    /\ pc = "error"
    /\ raised = NotAvailable(UnknownName)

----------------------------------------------------------------------------
\* C14.  With a template of zero messages prompt_translate never completes a
\* run, and it raises before any unit is handled, skipped ones included.
C14_EmptyTemplateFailsFast ==
    seed_prompt = <<>>
       => /\ pc # "done"
          /\ (pc = "error" => events = <<>>)

----------------------------------------------------------------------------
\* The files of the list up to position k that hold something, in list order.
RECURSIVE NonEmptyUpTo(_)
NonEmptyUpTo(k) ==
    IF k = 0 THEN <<>>
    ELSE IF fs[filelist[k]].data # <<>>
         THEN Append(NonEmptyUpTo(k - 1), filelist[k])
         ELSE NonEmptyUpTo(k - 1)

\* The files of the list up to position k, in list order.
AllUpTo(k) == SubSeq(filelist, 1, k)

\* The block of the file at path p: its opening tag, its content, its closing tag.
BlockOf(p) ==
    <<"\n", "<", p, ">", "\n">> \o join(fs[p].data) \o <<"</", p, ">", "\n">>

\* The blocks of the files of the sequence ps, one after the other.
RECURSIVE BlocksOf(_)
BlocksOf(ps) ==
    IF ps = <<>> THEN <<>>
    ELSE BlockOf(Head(ps)) \o BlocksOf(Tail(ps))

QueryBlock == <<"\n", "<query>", "\n">> \o query_prompt \o <<"\n", "</query>", "\n">>

\* The prompt is built: the query block has been added.
InspectBuilt == pc \in {"i_save", "i_chat", "done"}

\* The conversation is one user message with the given content.
OneUserMessage(content) ==
    chat_template = <<[role |-> "user", content |-> content]>>

\* The number of chat calls the invocation has made.
InspectChats == Cardinality({k \in 1..Len(events) : events[k][1] = "chat"})

\* What holds of the backend call and of the answer whatever the blocks are:
\* one call when a backend is configured and none otherwise, and the answer
\* printed as the backend gave it.
InspectCallsOnce ==
    /\ InspectChats <= (IF Backend THEN 1 ELSE 0)
    /\ pc = "done"
          => /\ InspectChats = (IF Backend THEN 1 ELSE 0)
             /\ fs[Stdout].data = (IF Backend THEN <<result>> ELSE <<>>)
    /\ pc = "i_chat" => Backend

\* C15 (as amended).  The conversation prompt_inspect builds is one user
\* message holding the preamble, then a <PATH> block for each non-empty file of
\* the list in list order with the file's content, then the <query> block with
\* the query; a backend is called once when configured and never otherwise, and
\* its answer is printed unchanged.
C15_InspectAggregatesNonEmptyFiles ==
    /\ InspectBuilt
          => OneUserMessage(Preamble \o BlocksOf(NonEmptyUpTo(Len(filelist)))
                               \o QueryBlock)
    /\ pc = "i_files"
          => OneUserMessage(Preamble \o BlocksOf(NonEmptyUpTo(idx - 1)))
    /\ InspectCallsOnce

\* C15 as stated: a block for each file of the list.
C15_InspectAggregatesEveryFile ==
    /\ InspectBuilt
          => OneUserMessage(Preamble \o BlocksOf(AllUpTo(Len(filelist)))
                               \o QueryBlock)
    /\ InspectCallsOnce

\* Two different non-empty files were aggregated in list order and the tagged
\* answer of the backend was printed whole.
C15_Witness ==
    /\ pc = "done"
    /\ filelist = <<"b.f", "a.f">>
    /\ fs["a.f"] = File(<<LineCode>>)
    /\ fs["b.f"] = File(<<LineNote, LineCode>>)
    /\ Backend
    /\ result = RespBoth
    /\ fs[Stdout].data = <<RespBoth>>
    /\ OneUserMessage(Preamble
                         \o <<"\n", "<", "b.f", ">", "\n">> \o LineNote \o LineCode
                         \o <<"</", "b.f", ">", "\n">>
                         \o <<"\n", "<", "a.f", ">", "\n">> \o LineCode
                         \o <<"</", "a.f", ">", "\n">>
                         \o <<"\n", "<query>", "\n", "q", "?", "\n", "</query>", "\n">>)

----------------------------------------------------------------------------
\* The history of the invocation runs through the units in order, holds at
\* most one chat call for a unit, and nothing of a unit not yet reached.
InOrder ==
    /\ \A j, k \in 1..Len(events) : j < k => events[j][2] <= events[k][2]
    /\ \A k \in 1..Len(events) : events[k][2] <= idx
    /\ \A i \in Units : Count("chat", i) <= 1

\* A step of the invocation stays with the unit at hand: it changes no file of
\* another unit, it moves on by one unit and only from the head of the loop or
\* from the end of the body, and what it adds to the history is of that unit.
OneUnitAtATime ==
    /\ \A p \in DOMAIN fs : fs'[p] # fs[p] => p[2] = idx
    /\ idx' \in {idx, idx + 1}
    /\ idx' = idx + 1 => pc \in {"loop", "restore"}
    /\ events' # events
          => /\ Len(events') > Len(events)
             /\ SubSeq(events', 1, Len(events)) = events
             /\ \A k \in (Len(events) + 1)..Len(events') : events'[k][2] = idx

\* After an error nothing is left to the invocation: the next thing that
\* happens is another invocation.
NothingAfterError ==
    pc = "error" => pc' = "start" /\ fs' = fs /\ events' = <<>>

\* C16.  prompt_translate takes the units in order, calls the backend at most
\* once for a unit, writes nothing of a unit but during that unit, and after an
\* error reads, writes and calls nothing more.
C16_UnitsInSequence ==
    /\ []InOrder
    /\ [][/\ pc' # "start" => OneUnitAtATime
          /\ NothingAfterError]_vars

\* Two units were generated one after the other, each with one chat call.
C16_Witness ==
    /\ pc = "done"
    /\ prev = "none"
    /\ NumUnits = 2
    /\ events[Len(events)][2] = 2
    /\ Count("chat", 1) = 1
    /\ Count("chat", 2) = 1
    /\ Happened("write_csource", 1)
    /\ Happened("write_csource", 2)

----------------------------------------------------------------------------
\* C17.  Once the backend is selected, a selector that spells the provider
\* name in any case has the hosted backend, and the checkpoint backend is had
\* only by a selector that names an existing directory.
C17_BackendSelection ==
    pc \notin {"start", "i_start"}
       => /\ IsProviderName(model) => neural_model = "OpenAIModel"
          /\ neural_model = "TFModel" => model \in directories

----------------------------------------------------------------------------
\* The step makes a chat call for the unit at hand.
ChatCalled == events' # events /\ events'[Len(events) + 1] = <<"chat", idx>>

\* The step changes the primary output of unit i.
PrimaryChanged(i) == fs'[<<2, i>>] # fs[<<2, i>>]

\* The primary output of the unit at hand is absent, or prompts are saved.
Wanted == ~isfile(csource) \/ save_prompts

\* C18.  A chat call is made for a unit only with a backend and with the
\* primary output absent or save_prompts set; the primary output of a unit
\* changes only after that unit's chat call, and one that was there before the
\* invocation only with save_prompts; a unit is passed over only when its
\* primary output exists and save_prompts is unset, and a unit whose body ends
\* has had its chat call and its primary output written iff a backend is
\* configured.
C18_GuardDecidesChatAndWrite ==
    [][pc' # "start"
          => /\ ChatCalled => Backend /\ Wanted
             /\ \A i \in Units :
                   PrimaryChanged(i)
                      => /\ i = idx
                         /\ Backend
                         /\ Count("chat", i) = 1
                         /\ fs[<<2, i>>].isfile
                               => save_prompts \/ Happened("open_csource", i)
             /\ (pc = "loop" /\ pc' = "source") => Wanted
             /\ (pc = "loop" /\ idx' = idx + 1)
                   => ~Wanted /\ ~Happened("chat", idx)
             /\ (pc = "restore" /\ pc' = "loop")
                   => /\ Happened("chat", idx) <=> Backend
                      /\ Happened("write_csource", idx) <=> Backend]_vars

\* With a backend and save_prompts unset, the first unit, whose primary output
\* was there, was passed over and kept it, and the second, whose primary output
\* was absent, had its chat call and its primary output written.
C18_Witness ==
    /\ pc = "done"
    /\ prev = "none"
    /\ Backend
    /\ ~save_prompts
    /\ NumUnits = 2
    /\ events[1] = <<"skip", 1>>
    /\ fs[<<2, 1>>] = File(OldText)
    /\ Count("chat", 2) = 1
    /\ Happened("write_csource", 2)
    /\ fs[<<2, 2>>] = File(PrimaryText(result))

====
